---- MODULE Spec2Model ----
(*****************************************************************************)
(* The job scheduler of lib/Driver/Compilation.cpp: Compilation::performJobs,*)
(* the recursive Compilation::performJobsInList with its three lambdas       *)
(* (scheduleCommandIfNecessaryAndPossible, taskFinished, taskSignalled)      *)
(* and Compilation::performSingleCommand.                                    *)
(*                                                                           *)
(* A Job is a number in 1..NumJobs; NoJob (0) is the null pointer.  The job  *)
(* graph (Jobs, inputs, condition, hasDeps) is built before performJobs and  *)
(* never changes.  Every invocation of performJobsInList is one frame of     *)
(* `stack`: its own TaskQueue, DependencyGraph, DeferredCommands,            *)
(* NeedToRunEverything and Result; PerformJobsState is shared by all frames. *)
(*                                                                           *)
(* TaskQueue and DependencyGraph are not part of Compilation.cpp: the queue  *)
(* starts queued tasks while a slot is free and no callback answered         *)
(* StopExecution, and calls back once per started task; loadFromPath reports *)
(* Valid or HadError (NeedsRebuilding is unreachable, lines 141 and 247) and *)
(* markTransitive reports jobs it had not marked.  DeferredCommands is       *)
(* iterated in the order of the job numbers.  The DummyTaskQueue of          *)
(* SkipTaskExecution and a failing ExecuteInPlace are left out, and so are   *)
(* the diagnostics and the parseable output.  With the assert of line 309    *)
(* compiled in a failing assert aborts (assertFails); compiled out, the run  *)
(* goes on (finalize), so both are steps of the model.                       *)
(*****************************************************************************)
EXTENDS Integers, Sequences, FiniteSets, TLC

\* ---------------------------------------------------------------- bounds
\* Spec runs the graphs of at most MaxUsed jobs, MaxInputs inputs per job,
\* MaxEdges inputs in all and MaxDeps dependencies files; SpecMedium runs
\* the graphs of InitMedium; SpecSucceeding, SpecSucceedingFair and
\* SpecDeep run larger graphs with every task exiting 0.
MaxUsed == 3
MaxInputs == 1
MaxEdges == 1
MaxDeps == 1
NumberOfParallelCommands == 2

NumJobs == MaxUsed + 1
Job == 1..NumJobs
NoJob == 0
\* What a process exits with: 0, 1 (the code line 209 tells apart) or
\* another code.
ExitCodes == {0, 1, 2}
SignalResult == 0 - 2

VARIABLES
  Jobs,               \* Compilation::Jobs, the top-level JobList
  inputs,             \* Job::getInputs(), a JobList per job
  condition,          \* Job::getCondition()
  hasDeps,            \* the job's output names a TY_SwiftDeps file
  depsFile,           \* what is on disk for each job's dependency file
  ScheduledCommands,  \* PerformJobsState::ScheduledCommands
  FinishedCommands,   \* PerformJobsState::FinishedCommands
  BlockingCommands,   \* PerformJobsState::BlockingCommands (<<>>: no entry)
  stack,              \* the active invocations of performJobsInList
  pc,                 \* where performJobs is
  result,             \* the value the last return statement returned
  addCount,           \* history: calls of TaskQueue::addTask per job
  launched,           \* history: jobs whose process was started
  observed,           \* history: jobs whose completion callback has run
  firstFailure,       \* history: the first failing completion (0: none yet)
  failures,           \* history: the exit codes and signals seen so far
  skipped,            \* history: jobs marked skipped at a finalization
  owed,               \* history: jobs the rebuild-everything fallback covers
  assertionFailed,    \* history: the assert of line 309 has failed
  failed,             \* history: jobs that exited non-zero or were signalled
  loadFailed,         \* history: CheckDependencies jobs visited with HadError
  pending             \* history: jobs deferred, no HadError or mark since

vars == <<Jobs, inputs, condition, hasDeps, depsFile, ScheduledCommands,
          FinishedCommands, BlockingCommands, stack, pc, result, addCount,
          launched, observed, firstFailure, failures, skipped, owed,
          assertionFailed, failed, loadFailed, pending>>

graph == <<Jobs, inputs, condition, hasDeps>>
history == <<addCount, launched, observed, firstFailure, failures, skipped,
             owed, assertionFailed, failed, loadFailed, pending>>

\* ---------------------------------------------------------------- helpers
Range(s) == {s[k] : k \in 1..Len(s)}

Min(S) == CHOOSE x \in S : \A y \in S : x <= y

RECURSIVE SetToSeq(_)
SetToSeq(S) == IF S = {} THEN <<>>
               ELSE LET m == Min(S) IN <<m>> \o SetToSeq(S \ {m})

Count(s, j) == Cardinality({k \in 1..Len(s) : s[k] = j})

NoDupSeqs(S, n) ==
  UNION {{s \in [1..k -> S] : \A a, b \in 1..k : a # b => s[a] # s[b]} :
           k \in 0..n}

RECURSIVE ReachableFrom(_, _, _)
ReachableFrom(inp, S, n) ==
  IF n = 0 THEN S
  ELSE ReachableFrom(inp, S \cup UNION {Range(inp[j]) : j \in S}, n - 1)

IsAcyclic(inp) ==
  \A j \in Job : j \notin ReachableFrom(inp, Range(inp[j]), NumJobs)

getInputs(Cmd) == inputs[Cmd]

\* ------------------------------------------------ one performJobsInList
\* The locals of one invocation of performJobsInList (lines 84-94, 164).
\* Queued, Executing and SubtaskFailed are its TaskQueue; Loaded and Marked
\* are its DependencyGraph; `at` is the line the invocation is at.
NewFrame(JL) ==
  [JL |-> JL, idx |-> 1, at |-> "loop",
   Queued |-> <<>>, Executing |-> {}, SubtaskFailed |-> FALSE,
   Loaded |-> {}, Marked |-> {},
   DeferredCommands |-> {}, NeedToRunEverything |-> FALSE, Result |-> 0]

FrameFields == DOMAIN NewFrame(<<>>)

Top == stack[Len(stack)]

\* The invocation on top of the stack together with the shared
\* PerformJobsState: what the lambdas capture by reference.
Captured ==
  Top @@ [ScheduledCommands |-> ScheduledCommands,
          FinishedCommands |-> FinishedCommands,
          BlockingCommands |-> BlockingCommands]

FrameOf(c) == [k \in FrameFields |-> c[k]]

\* findUnfinishedJob with the test of line 78 inverted.
findFinishedJob(JL, Finished) ==
  LET finished == {k \in 1..Len(JL) : JL[k] \in Finished}
  IN IF finished = {} THEN NoJob ELSE JL[Min(finished)]

findUnfinishedJob(JL, Finished) ==
  LET unfinished == {k \in 1..Len(JL) : JL[k] \notin Finished}
  IN IF unfinished = {} THEN NoJob ELSE JL[Min(unfinished)]

\* scheduleCommandIfNecessaryAndPossible without lines 100-101.
scheduleCommandIfPossible(c, Cmd) ==
  LET Blocking == findUnfinishedJob(inputs[Cmd], c.FinishedCommands)
  IN IF Blocking # NoJob
     THEN [c EXCEPT !.BlockingCommands[Blocking] = Append(@, Cmd)]
     ELSE [c EXCEPT !.ScheduledCommands = @ \cup {Cmd},
                    !.Queued = Append(@, Cmd)]

scheduleCommandIfNecessaryAndPossible(c, Cmd) ==
  IF Cmd \in c.ScheduledCommands THEN c
  ELSE LET Blocking == findUnfinishedJob(getInputs(Cmd), c.FinishedCommands)
       IN IF Blocking # NoJob
          THEN [c EXCEPT !.BlockingCommands[Blocking] = Append(@, Cmd)]
          ELSE [c EXCEPT !.ScheduledCommands = @ \cup {Cmd},
                         !.Queued = Append(@, Cmd)]

\* for (const Job *Cmd : list) scheduleCommandIfNecessaryAndPossible(Cmd);
RECURSIVE scheduleEach(_, _)
scheduleEach(c, list) ==
  IF list = <<>> THEN c
  ELSE scheduleEach(scheduleCommandIfNecessaryAndPossible(c, Head(list)),
                    Tail(list))

\* The body of the loop of lines 116-156 after the recursive call returned
\* 0.  load is the outcome of DepGraph.loadFromPath, "none" when the job
\* names no dependencies file or NeedToRunEverything skips the load.
visitCommand(c, Cmd, load) ==
  LET next == [c EXCEPT !.idx = @ + 1, !.at = "loop"]
  IN IF c.NeedToRunEverything
     THEN scheduleCommandIfNecessaryAndPossible(next, Cmd)
     ELSE IF load = "error"
     THEN scheduleCommandIfNecessaryAndPossible(
            [next EXCEPT !.NeedToRunEverything = TRUE], Cmd)
     ELSE IF load = "none"
     THEN scheduleCommandIfNecessaryAndPossible(next, Cmd)
     ELSE IF condition[Cmd] = "Always"
     THEN [scheduleCommandIfNecessaryAndPossible(next, Cmd)
             EXCEPT !.Loaded = @ \cup {Cmd}, !.Marked = @ \cup {Cmd}]
     ELSE [next EXCEPT !.Loaded = @ \cup {Cmd},
                       !.DeferredCommands = @ \cup {Cmd}]

\* Lines 158-162, then line 294.
scheduleDeferred(c) ==
  IF c.NeedToRunEverything
  THEN [scheduleEach(c, SetToSeq(c.DeferredCommands))
          EXCEPT !.DeferredCommands = {}]
  ELSE c

\* Line 207 without the test of line 206.
lastFailedResult(Result, ReturnCode) == ReturnCode

\* Line 207.
failedResult(Result, ReturnCode) == IF Result = 0 THEN ReturnCode ELSE Result

\* Lines 220-227.
unblock(c, FinishedCmd) ==
  LET fin == [c EXCEPT !.FinishedCommands = @ \cup {FinishedCmd}]
  IN IF fin.BlockingCommands[FinishedCmd] # <<>>
     THEN [scheduleEach(fin, fin.BlockingCommands[FinishedCmd])
             EXCEPT !.BlockingCommands[FinishedCmd] = <<>>]
     ELSE fin

\* for (const Job *Cmd : Dependents) { erase; schedule } (lines 255-258).
RECURSIVE promoteEach(_, _)
promoteEach(c, Dependents) ==
  IF Dependents = <<>> THEN c
  ELSE promoteEach(
         scheduleCommandIfNecessaryAndPossible(
           [c EXCEPT !.DeferredCommands = @ \ {Head(Dependents)}],
           Head(Dependents)),
         Tail(Dependents))

\* Lines 231-260.  load is the outcome of the reload, Dependents what
\* markTransitive reports if it is called.
reload(c, FinishedCmd, load, Dependents) ==
  IF c.NeedToRunEverything \/ load = "none" THEN c
  ELSE LET wasNonPrivate == FinishedCmd \in c.Marked
       IN IF load = "error"
          THEN [scheduleEach([c EXCEPT !.NeedToRunEverything = TRUE],
                             SetToSeq(c.DeferredCommands))
                  EXCEPT !.DeferredCommands = {}]
          ELSE IF wasNonPrivate
          THEN promoteEach([c EXCEPT !.Loaded = @ \cup {FinishedCmd},
                                     !.Marked = @ \cup Dependents],
                           SetToSeq(Dependents))
          ELSE [c EXCEPT !.Loaded = @ \cup {FinishedCmd}]

\* taskFinished with lines 220-227 moved in front of the test of line 200.
taskFinishedUnblockingFirst(c, FinishedCmd, ReturnCode, load, Dependents) ==
  LET u == unblock(c, FinishedCmd)
  IN IF ReturnCode # 0
     THEN [u EXCEPT !.Result = failedResult(@, ReturnCode),
                    !.SubtaskFailed = TRUE]
     ELSE reload(u, FinishedCmd, load, Dependents)

\* The taskFinished lambda (lines 185-263); StopExecution is SubtaskFailed.
taskFinishedCallback(c, FinishedCmd, ReturnCode, load, Dependents) ==
  IF ReturnCode # 0
  THEN [c EXCEPT !.Result = failedResult(@, ReturnCode),
                 !.SubtaskFailed = TRUE]
  ELSE reload(unblock(c, FinishedCmd), FinishedCmd, load, Dependents)

\* taskSignalled keeping a result already stored, as taskFinished does.
taskSignalledKeepingResult(c, SignalledCmd) ==
  [c EXCEPT !.Result = IF @ = 0 THEN SignalResult ELSE @,
            !.SubtaskFailed = TRUE]

\* The taskSignalled lambda (lines 265-291).
taskSignalledCallback(c, SignalledCmd) ==
  [c EXCEPT !.Result = SignalResult, !.SubtaskFailed = TRUE]

\* Lines 296-306 without line 304.
markSkippedFinishedOnly(c) ==
  [c EXCEPT !.FinishedCommands = @ \cup c.DeferredCommands]

\* Lines 296-306.
markSkipped(c) ==
  [c EXCEPT !.ScheduledCommands = @ \cup c.DeferredCommands,
            !.FinishedCommands = @ \cup c.DeferredCommands]

\* Lines 308-311: the condition the assert states.
assertHolds(c) ==
  c.Result = 0 => \A j \in Job : c.BlockingCommands[j] = <<>>

\* Lines 316-324.
getOnlyCommandInList(List) ==
  IF Len(List) # 1 THEN NoJob
  ELSE IF getInputs(List[1]) = <<>> THEN List[1] ELSE NoJob

\* ------------------------------------------------------------------ Init
\* The job graphs: acyclic, at most MaxInputs inputs per job and MaxEdges in
\* all, at most MaxDeps jobs naming a dependencies file.  Jobs are only told
\* apart by reference, so the top-level list is the jobs 1..k in this order
\* and the jobs some list reaches are the jobs 1..u; any other graph is a
\* renaming of one of these.  A job no list reaches is never looked at, and
\* the condition of a job without a dependencies file is read by
\* performSingleCommand alone (line 139 reads it after a Valid load).
Used(top, inp) == ReachableFrom(inp, Range(top), NumJobs)

RECURSIVE SumLen(_, _)
SumLen(inp, n) ==
  IF n = 0 THEN 0 ELSE Len(inp[n]) + SumLen(inp, n - 1)

IsJobGraph(top, inp, u, maxEdges) ==
  /\ SumLen(inp, NumJobs) <= maxEdges
  /\ IsAcyclic(inp)
  /\ Used(top, inp) = 1..u

\* The state when performJobs is called on a graph of at most maxUsed jobs.
InitOn(maxUsed, maxInputs, maxEdges, maxDeps) ==
  /\ \E u \in 0..maxUsed, k \in 0..maxUsed :
       \E f \in [1..u -> NoDupSeqs(1..u, maxInputs)] :
         /\ k <= u
         /\ Jobs = [i \in 1..k |-> i]
         /\ inputs = [j \in Job |-> IF j <= u THEN f[j] ELSE <<>>]
         /\ IsJobGraph(Jobs, inputs, u, maxEdges)
         /\ \E c \in [1..u -> {"Always", "CheckDependencies"}],
               d \in [1..u -> BOOLEAN] :
              /\ Cardinality({j \in 1..u : d[j]}) <= maxDeps
              /\ \A j \in 1..u :
                   c[j] = "CheckDependencies" =>
                     d[j] \/ (k = 1 /\ j = 1 /\ f[1] = <<>>)
              /\ condition = [j \in Job |-> IF j <= u THEN c[j] ELSE "Always"]
              /\ hasDeps = [j \in Job |-> IF j <= u THEN d[j] ELSE FALSE]
  /\ depsFile = [j \in Job |-> "unread"]
  /\ ScheduledCommands = {}
  /\ FinishedCommands = {}
  /\ BlockingCommands = [j \in Job |-> <<>>]
  /\ stack = <<>>
  /\ pc = "start"
  /\ result = 0
  /\ addCount = [j \in Job |-> 0]
  /\ launched = {}
  /\ observed = {}
  /\ firstFailure = 0
  /\ failures = {}
  /\ skipped = {}
  /\ owed = [active |-> FALSE, jobs |-> {}]
  /\ assertionFailed = FALSE
  /\ failed = {}
  /\ loadFailed = {}
  /\ pending = {}

Init == InitOn(MaxUsed, MaxInputs, MaxEdges, MaxDeps)

InitWide == InitOn(NumJobs, MaxInputs + 1, MaxEdges + 2, MaxDeps + 1)

\* --------------------------------------------------------------- actions
\* What an action leaves of the captured state: the shared
\* PerformJobsState, the invocation on top of the stack, and one addTask
\* counted for every entry the action appended to the queue.
Commit(c) ==
  /\ ScheduledCommands' = c.ScheduledCommands
  /\ FinishedCommands' = c.FinishedCommands
  /\ BlockingCommands' = c.BlockingCommands
  /\ stack' = [stack EXCEPT ![Len(stack)] = FrameOf(c)]
  /\ addCount' = [j \in Job |->
                    addCount[j] + Count(c.Queued, j) - Count(Top.Queued, j)]

\* What DepGraph.loadFromPath can report for a file: a file nothing has
\* written since it was last read reads the same again.
LoadOutcomes(Cmd) ==
  IF ~hasDeps[Cmd] THEN {"none"}
  ELSE IF depsFile[Cmd] = "unread" THEN {"valid", "error"}
  ELSE {depsFile[Cmd]}

Running == pc = "running" /\ stack # <<>>

\* Lines 330-335: performSingleCommand goes on to ExecuteInPlace unless
\* the condition of the command is CheckDependencies.
performSingleCommandExecutes(Cmd) == condition[Cmd] # "CheckDependencies"

\* performJobs, lines 351-357: the single command is run in place.
performSingleCommand ==
  /\ pc = "start"
  /\ \E parseable \in BOOLEAN :
       /\ ~parseable
       /\ getOnlyCommandInList(Jobs) # NoJob
       /\ LET Cmd == getOnlyCommandInList(Jobs)
          IN IF ~performSingleCommandExecutes(Cmd)
             THEN pc' = "done" /\ result' = 0 /\ launched' = launched
             ELSE pc' = "execed" /\ result' = result
                  /\ launched' = launched \cup {Cmd}
  /\ UNCHANGED <<graph, depsFile, ScheduledCommands, FinishedCommands,
                 BlockingCommands, stack, addCount, observed, firstFailure,
                 failures, skipped, owed, assertionFailed, failed,
                 loadFailed, pending>>

\* performJobs, lines 359-364: the call of performJobsInList(*Jobs, State).
performJobs ==
  /\ pc = "start"
  /\ \E parseable \in BOOLEAN :
       parseable \/ getOnlyCommandInList(Jobs) = NoJob
  /\ pc' = "running"
  /\ stack' = <<NewFrame(Jobs)>>
  /\ UNCHANGED <<graph, depsFile, ScheduledCommands, FinishedCommands,
                 BlockingCommands, result, history>>

\* Line 117: the recursive call on the inputs of the next job of the list.
performJobsInList ==
  /\ Running
  /\ Top.at = "loop"
  /\ Top.idx <= Len(Top.JL)
  /\ stack' = Append([stack EXCEPT ![Len(stack)].at = "returned"],
                     NewFrame(getInputs(Top.JL[Top.idx])))
  /\ UNCHANGED <<graph, depsFile, ScheduledCommands, FinishedCommands,
                 BlockingCommands, pc, result, history>>

\* A return statement of performJobsInList: to the caller's line 118, or
\* to performJobs (lines 364-373).
Return(res) ==
  /\ stack' = SubSeq(stack, 1, Len(stack) - 1)
  /\ result' = res
  /\ pc' = IF Len(stack) = 1 THEN "done" ELSE pc

\* Line 119 replaced by `continue`: the walk goes on to the next job.
continueInputsFailed ==
  /\ Running
  /\ Top.at = "returned"
  /\ result # 0
  /\ stack' = [stack EXCEPT ![Len(stack)].idx = @ + 1,
                            ![Len(stack)].at = "loop"]
  /\ UNCHANGED <<graph, depsFile, ScheduledCommands, FinishedCommands,
                 BlockingCommands, pc, result, history>>

\* Lines 118-119: a non-zero status of the recursive call is returned.
returnInputsFailed ==
  /\ Running
  /\ Top.at = "returned"
  /\ result # 0
  /\ Return(result)
  /\ UNCHANGED <<graph, depsFile, ScheduledCommands, FinishedCommands,
                 BlockingCommands, history>>

\* Lines 121-155: the job of the list is scheduled, deferred or blocked.
visit ==
  /\ Running
  /\ Top.at = "returned"
  /\ result = 0
  /\ LET Cmd == Top.JL[Top.idx]
     IN \E load \in (IF Top.NeedToRunEverything THEN {"none"}
                     ELSE LoadOutcomes(Cmd)) :
          /\ Commit(visitCommand(Captured, Cmd, load))
          /\ depsFile' = IF load = "none" THEN depsFile
                         ELSE [depsFile EXCEPT ![Cmd] = load]
          /\ owed' = IF load = "error"
                     THEN [active |-> TRUE,
                           jobs |-> owed.jobs \cup Top.DeferredCommands]
                     ELSE IF owed.active
                     THEN [owed EXCEPT !.jobs = @ \cup {Cmd}]
                     ELSE owed
          /\ loadFailed' = IF load = "error"
                              /\ condition[Cmd] = "CheckDependencies"
                           THEN loadFailed \cup {Cmd}
                           ELSE loadFailed
          /\ pending' = IF load = "error" THEN {}
                        ELSE IF load = "valid"
                                /\ condition[Cmd] = "CheckDependencies"
                        THEN pending \cup {Cmd}
                        ELSE pending
  /\ UNCHANGED <<graph, pc, result, launched, observed, firstFailure,
                 failures, skipped, assertionFailed, failed>>

\* Lines 158-164: the end of the loop, up to the call of TQ->execute.
endOfList ==
  /\ Running
  /\ Top.at = "loop"
  /\ Top.idx > Len(Top.JL)
  /\ Commit([scheduleDeferred(Captured) EXCEPT !.at = "execute"])
  /\ UNCHANGED <<graph, depsFile, pc, result, launched, observed,
                 firstFailure, failures, skipped, owed, assertionFailed,
                 failed, loadFailed, pending>>

\* TaskQueue::execute: a queued task is started as soon as a slot is free,
\* unless a callback has answered StopExecution.
CanStart(f) ==
  /\ f.at = "execute"
  /\ ~f.SubtaskFailed
  /\ f.Queued # <<>>
  /\ Cardinality(f.Executing) < NumberOfParallelCommands

\* The executor starts the next queued task; taskBegan only prints.
taskBegan ==
  /\ Running
  /\ CanStart(Top)
  /\ stack' = [stack EXCEPT ![Len(stack)].Queued = Tail(@),
                            ![Len(stack)].Executing = @ \cup {Head(Top.Queued)}]
  /\ launched' = launched \cup {Head(Top.Queued)}
  /\ UNCHANGED <<graph, depsFile, ScheduledCommands, FinishedCommands,
                 BlockingCommands, pc, result, addCount, observed,
                 firstFailure, failures, skipped, owed, assertionFailed,
                 failed, loadFailed, pending>>

\* What DepGraph.markTransitive can report: jobs of this graph not marked
\* before.  It is called for a marked job whose reload is valid only.
MarkTransitiveOutcomes(c, FinishedCmd, ReturnCode, load) ==
  IF ReturnCode = 0 /\ ~c.NeedToRunEverything /\ load = "valid"
     /\ FinishedCmd \in c.Marked
  THEN SUBSET ((c.Loaded \ c.Marked) \ {FinishedCmd})
  ELSE {{}}

\* A task of the queue exits: the taskFinished callback.  A job that ran
\* to the end has written its dependencies file anew.
taskFinished(codes) ==
  /\ Running
  /\ Top.at = "execute"
  /\ ~CanStart(Top)
  /\ \E FinishedCmd \in Top.Executing, ReturnCode \in codes :
       \E load \in (IF ReturnCode # 0 THEN {"none"}
                    ELSE IF hasDeps[FinishedCmd] THEN {"valid", "error"}
                    ELSE {"none"}) :
         LET c == [Captured EXCEPT !.Executing = @ \ {FinishedCmd}]
         IN \E Dependents \in
                  MarkTransitiveOutcomes(c, FinishedCmd, ReturnCode, load) :
              /\ Commit(taskFinishedCallback(c, FinishedCmd, ReturnCode,
                                             load, Dependents))
              /\ depsFile' = IF load = "none" THEN depsFile
                             ELSE [depsFile EXCEPT ![FinishedCmd] = load]
              /\ observed' = observed \cup {FinishedCmd}
              /\ failures' = IF ReturnCode # 0
                             THEN failures \cup {ReturnCode}
                             ELSE failures
              /\ firstFailure' = IF firstFailure = 0 THEN ReturnCode
                                 ELSE firstFailure
              /\ owed' = IF load = "error" /\ ~c.NeedToRunEverything
                         THEN [active |-> TRUE,
                               jobs |-> owed.jobs \cup c.DeferredCommands]
                         ELSE owed
              /\ failed' = IF ReturnCode # 0
                           THEN failed \cup {FinishedCmd}
                           ELSE failed
              /\ pending' = IF load = "error" /\ ~c.NeedToRunEverything
                            THEN {}
                            ELSE pending \ Dependents
  /\ UNCHANGED <<graph, pc, result, launched, skipped, assertionFailed,
                 loadFailed>>

\* A task of the queue is killed by a signal: the taskSignalled callback.
taskSignalled ==
  /\ Running
  /\ Top.at = "execute"
  /\ ~CanStart(Top)
  /\ \E SignalledCmd \in Top.Executing :
       /\ Commit(taskSignalledCallback(
                   [Captured EXCEPT !.Executing = @ \ {SignalledCmd}],
                   SignalledCmd))
       /\ observed' = observed \cup {SignalledCmd}
       /\ failures' = failures \cup {SignalResult}
       /\ firstFailure' = IF firstFailure = 0 THEN SignalResult
                          ELSE firstFailure
       /\ failed' = failed \cup {SignalledCmd}
  /\ UNCHANGED <<graph, depsFile, pc, result, launched, skipped, owed,
                 assertionFailed, loadFailed, pending>>

\* TaskQueue::execute returns: nothing is executing and nothing more is
\* to be started.
Drained(f) ==
  /\ f.at = "execute"
  /\ f.Executing = {}
  /\ f.Queued = <<>> \/ f.SubtaskFailed

\* Lines 296-313, the assert compiled out or holding.
finalize ==
  /\ Running
  /\ Drained(Top)
  /\ LET c == markSkipped(Captured)
     IN /\ ScheduledCommands' = c.ScheduledCommands
        /\ FinishedCommands' = c.FinishedCommands
        /\ skipped' = skipped \cup c.DeferredCommands
        /\ assertionFailed' = (assertionFailed \/ ~assertHolds(c))
        /\ Return(c.Result)
  /\ UNCHANGED <<graph, depsFile, BlockingCommands, addCount, launched,
                 observed, firstFailure, failures, owed, failed, loadFailed,
                 pending>>

\* Lines 296-311, the assert compiled in and failing: the program aborts.
assertFails ==
  /\ Running
  /\ Drained(Top)
  /\ LET c == markSkipped(Captured)
     IN /\ ~assertHolds(c)
        /\ ScheduledCommands' = c.ScheduledCommands
        /\ FinishedCommands' = c.FinishedCommands
        /\ skipped' = skipped \cup c.DeferredCommands
  /\ assertionFailed' = TRUE
  /\ pc' = "aborted"
  /\ UNCHANGED <<graph, depsFile, BlockingCommands, stack, result, addCount,
                 launched, observed, firstFailure, failures, owed, failed,
                 loadFailed, pending>>

Next ==
  \/ performSingleCommand
  \/ performJobs
  \/ performJobsInList
  \/ returnInputsFailed
  \/ visit
  \/ endOfList
  \/ taskBegan
  \/ taskFinished(ExitCodes)
  \/ taskSignalled
  \/ finalize
  \/ assertFails

Spec == Init /\ [][Next]_vars

\* The runs in which every task exits 0, on the graphs of all NumJobs jobs.
NextSucceeding ==
  \/ performSingleCommand
  \/ performJobs
  \/ performJobsInList
  \/ visit
  \/ endOfList
  \/ taskBegan
  \/ taskFinished({0})
  \/ finalize
  \/ assertFails

SpecSucceeding == InitWide /\ [][NextSucceeding]_vars

\* The same runs on the graphs of at most MaxUsed jobs with one more input
\* and one more dependencies file than Init allows.  performJobs is a
\* sequential program that runs on while it has a next statement, and the
\* TaskQueue completes every task it has started: a step that is possible
\* is taken.
InitMedium == InitOn(MaxUsed, MaxInputs, MaxEdges + 1, MaxDeps + 1)

SpecSucceedingFair ==
  InitMedium /\ [][NextSucceeding]_vars /\ WF_vars(NextSucceeding)

\* All runs, failing tasks included, on the graphs of InitMedium.
SpecMedium == InitMedium /\ [][Next]_vars

\* The runs of the general path in which every task exits 0, on the graphs
\* of InitWide with one more input in all: SpecSucceeding runs the graphs
\* with fewer inputs.  A list of one command without inputs is not among
\* them, so performSingleCommand is no step here.
InitDeep ==
  /\ InitOn(NumJobs, MaxInputs + 1, MaxEdges + 3, MaxDeps + 1)
  /\ SumLen(inputs, NumJobs) = MaxEdges + 3

NextGeneralPath ==
  \/ performJobs
  \/ performJobsInList
  \/ visit
  \/ endOfList
  \/ taskBegan
  \/ taskFinished({0})
  \/ finalize
  \/ assertFails

SpecDeep == InitDeep /\ [][NextGeneralPath]_vars

\* ---------------------------------------------------------------- claims
Submitted(j) == addCount[j] > 0

\* Submitted to some executor, its completion callback not yet run.
InFlight(j) == Submitted(j) /\ j \notin observed

SubmittedNow(j) == addCount'[j] > addCount[j]

\* C1: whenever a task has been handed to addTask, every job of its
\* getInputs() is in FinishedCommands (FinishedCommands never shrinks, so
\* this is the state at the moment of the submission as well).
C1_TopologicalSafety ==
  \A j \in Job : Submitted(j) => Range(getInputs(j)) \subseteq FinishedCommands

C1_Witness ==
  \E j \in Job :
    /\ Submitted(j)
    /\ getInputs(j) # <<>>
    /\ Range(getInputs(j)) \subseteq observed

\* C2: in every step that submits a task, none of the task's dependencies
\* is in flight afterwards (queued or executing in some invocation's
\* TaskQueue with its completion callback not yet run).
C2_NeverBeforeDependencies ==
  [][\A j \in Job :
       SubmittedNow(j) => \A d \in Range(getInputs(j)) : ~InFlight(d)']_vars

\* C3: no task is handed to addTask more than once.
C3_AtMostOnce == \A j \in Job : addCount[j] <= 1

\* A job of the top-level list that is an input of another one, so visited
\* by two invocations, after a run in which both were submitted.
C3_Witness ==
  /\ pc = "done"
  /\ \E j, p \in Range(Jobs) :
       /\ j \in Range(getInputs(p))
       /\ addCount[j] = 1
       /\ addCount[p] = 1

\* C4: after a run that returned 0, every task that was deferred when a
\* load reported HadError, and every task visited after that, has been
\* submitted exactly once.
C4_FallbackCompleteness ==
  (pc = "done" /\ result = 0) => \A j \in owed.jobs : addCount[j] = 1

\* C5: a task that was in DeferredCommands when an executor drain completed
\* is in ScheduledCommands and FinishedCommands, and no process is ever
\* launched for it.
C5_SkipAccounting ==
  \A j \in skipped :
    /\ j \in ScheduledCommands
    /\ j \in FinishedCommands
    /\ j \notin launched

\* C6: when every launched task exits 0, no invocation reaches line 309
\* with Result 0 and a non-empty BlockingCommands.
C6_BlockingResolution == (failures = {}) => ~assertionFailed

\* C7: no key of BlockingCommands is in FinishedCommands.
C7_BlockingKeysUnfinished ==
  \A j \in Job : BlockingCommands[j] # <<>> => j \notin FinishedCommands

\* C8: FinishedCommands is a subset of ScheduledCommands.
C8_FinishedSubsetScheduled == FinishedCommands \subseteq ScheduledCommands

\* A job marked skipped and a job whose exit 0 was observed are finished.
C8_Witness ==
  /\ skipped # {}
  /\ (observed \cap FinishedCommands) \ skipped # {}

\* C9: when performJobs returns after both a non-zero exit and a signal
\* were observed, it returns the signal sentinel.
C9_ResultPriority ==
  (/\ pc = "done"
   /\ SignalResult \in failures
   /\ failures \ {SignalResult} # {}) => result = SignalResult

\* The non-zero exit came first, the signal after it.
C9_Witness ==
  /\ pc = "done"
  /\ SignalResult \in failures
  /\ firstFailure \in ExitCodes \ {0}

\* C10: when performJobs returns after non-zero exits and no signal, it
\* returns the exit code of the first failing completion.
C10_FirstFailureRetained ==
  (/\ pc = "done"
   /\ failures # {}
   /\ SignalResult \notin failures) => result = firstFailure

\* Two tasks failed with different codes.
C10_Witness ==
  /\ pc = "done"
  /\ SignalResult \notin failures
  /\ Cardinality(failures) >= 2

\* C11: in a step taken after a task has exited non-zero or been signalled
\* (some invocation's Result is non-zero from then on), no task is handed
\* to addTask, so none is inserted into ScheduledCommands by a submission.
C11_NoSubmissionsAfterFailure ==
  [][failures # {} => \A j \in Job : ~SubmittedNow(j)]_vars

\* C12: when the general path has run a list of one command without
\* inputs, it has handed the command to addTask exactly if
\* performSingleCommand executes that command.
C12_FastPathEquivalence ==
  LET Cmd == getOnlyCommandInList(Jobs)
  IN (Cmd # NoJob /\ pc = "done" /\ Cmd \in ScheduledCommands) =>
       (Submitted(Cmd) <=> performSingleCommandExecutes(Cmd))

\* C13: a CheckDependencies task whose dependencies file failed to load
\* (HadError) when it was visited is never marked skipped, and when
\* performJobs has returned 0 it has been handed to addTask.
C13_LoadFailureOverridesCondition ==
  \A j \in loadFailed :
    /\ j \notin skipped
    /\ (pc = "done" /\ result = 0) => Submitted(j)

IsBlocked(j) == \E d \in Job : j \in Range(BlockingCommands[d])

\* C14: when every launched task exits 0, a task registered in a list of
\* BlockingCommands is eventually handed to addTask.
C14_BlockedEventuallySubmitted ==
  \A j \in Job : [](IsBlocked(j) => <>Submitted(j))

\* C15: the callback of a task that exited non-zero or was signalled
\* leaves ScheduledCommands, FinishedCommands, BlockingCommands, the
\* DeferredCommands and NeedToRunEverything of its invocation and every
\* other invocation unchanged, loads and marks nothing in the
\* DependencyGraph, calls no addTask, and answers StopExecution.
C15_FailureChangesOnlyResult ==
  [][failed' # failed =>
       /\ UNCHANGED <<ScheduledCommands, FinishedCommands, BlockingCommands,
                      depsFile, addCount>>
       /\ Len(stack') = Len(stack)
       /\ \A k \in 1..Len(stack) - 1 : stack'[k] = stack[k]
       /\ Top'.DeferredCommands = Top.DeferredCommands
       /\ Top'.NeedToRunEverything = Top.NeedToRunEverything
       /\ Top'.Loaded = Top.Loaded
       /\ Top'.Marked = Top.Marked
       /\ Top'.Queued = Top.Queued
       /\ Top'.SubtaskFailed]_vars

\* A task has failed while another task was blocked on it.
C15_Witness ==
  /\ Running
  /\ \E j \in failed : BlockingCommands[j] # <<>>

\* The recursive call of line 117 has returned a non-zero status.
InputsFailed == Running /\ Top.at = "returned" /\ result # 0

\* C16: when the recursive call on a job's inputs has returned a non-zero
\* status, the next step is the return of the invocation with that status:
\* nothing is visited, loaded, submitted or launched, and nothing is marked
\* skipped.
C16_FailFastPropagation ==
  [][InputsFailed =>
       /\ stack' = SubSeq(stack, 1, Len(stack) - 1)
       /\ result' = result
       /\ Top.Executing = {}
       /\ UNCHANGED <<ScheduledCommands, FinishedCommands, BlockingCommands,
                      depsFile, addCount, launched, observed, skipped>>]_vars

\* performJobs has returned a non-zero status and a job of the top-level
\* list was never visited: it is neither scheduled nor blocked.
C16_Witness ==
  /\ pc = "done"
  /\ result # 0
  /\ \E j \in Range(Jobs) : j \notin ScheduledCommands /\ ~IsBlocked(j)

\* C17: a task that was recorded as deferred, with no load reporting
\* HadError and no markTransitive naming it since then (this step
\* included), is not handed to addTask and no process is started for it.
C17_DeferredResolution ==
  [][\A j \in pending \cap pending' :
       /\ ~SubmittedNow(j)
       /\ j \in launched' => j \in launched]_vars

\* C18: in the step of a completion callback, every job markTransitive
\* returned (the jobs newly marked in the DependencyGraph of the
\* invocation) is out of DeferredCommands and has been handed to addTask
\* when the callback returns; and when the finished job was not marked
\* before its reload, nothing is newly marked and, unless the reload turns
\* the fallback on, DeferredCommands is left as it was.
C18_TransitivePromotion ==
  [][observed' # observed =>
       /\ \A d \in Top'.Marked \ Top.Marked :
            /\ d \notin Top'.DeferredCommands
            /\ addCount'[d] > 0
       /\ (observed' \ observed) \cap Top.Marked = {} =>
            /\ Top'.Marked = Top.Marked
            /\ Top'.NeedToRunEverything = Top.NeedToRunEverything =>
                 Top'.DeferredCommands = Top.DeferredCommands]_vars

\* performJobs has returned from performJobsInList (line 373), not from
\* performSingleCommand, which leaves ScheduledCommands empty.
GeneralPathDone ==
  /\ pc = "done"
  /\ ~(getOnlyCommandInList(Jobs) # NoJob /\ ScheduledCommands = {})

\* C19: when performJobs has returned 0 through the general path, every
\* job reachable from the top-level list is in ScheduledCommands and in
\* FinishedCommands, every such job handed to addTask had its exit 0
\* observed, and no list of BlockingCommands is left.
C19_CompleteResolution ==
  (GeneralPathDone /\ result = 0) =>
    /\ \A j \in Used(Jobs, inputs) :
         /\ j \in ScheduledCommands
         /\ j \in FinishedCommands
         /\ Submitted(j) => j \in observed \ failed
    /\ \A j \in Job : BlockingCommands[j] = <<>>

\* C20: a task that exited non-zero or was signalled is not in
\* FinishedCommands in any state from its callback on (the premise of the
\* claim's second half, that nothing depending on it is submitted).
C20_FailedNeverFinished == failed \cap FinishedCommands = {}

====
